---- MODULE Spec2Model ----
(***************************************************************************)
(* The three scripts of the repository as sequential programs:             *)
(*   evaluate       evaluate-azure-ai-agent-qauality.py                    *)
(*   agent_service  tracing-example-ai-agent-service.py                    *)
(*   langgraph      tracing-example-langgraph.py                           *)
(* Every module-level statement that calls a collaborator, branches or     *)
(* prints is one action.  The remote services are the environment: a       *)
(* remote call either returns or raises, and an exception that no handler  *)
(* catches ends the process.                                               *)
(***************************************************************************)
EXTENDS Integers, Sequences, FiniteSets, TLC

\* Bounds of the model.
MaxCount == 3      \* call counters saturate at this value
MaxMsgs == 2       \* longest message list the service returns
MaxRecords == 2    \* longest list of evaluation records the converter returns

Scripts == {"evaluate", "agent_service", "langgraph"}
AgentScripts == {"evaluate", "agent_service"}
TelemetryScripts == {"agent_service", "langgraph"}

\* The statements of each script, in source order.
Program(s) ==
    CASE s = "evaluate" ->
           << "create_agent", "create_thread", "create_message", "create_run",
              "poll_check", "poll_sleep", "poll_get", "failed_check",
              "list_messages", "print_loop", "prepare_data", "open_file",
              "write_loop", "model_config", "init_evaluators", "evaluate",
              "delete_agent", "output", "done" >>
      [] s = "agent_service" ->
           << "get_connection_string", "check_connection", "configure_monitor",
              "create_agent", "create_thread", "list_threads", "create_message",
              "create_run", "poll_check", "poll_sleep", "poll_get",
              "failed_check", "delete_agent", "list_messages", "print_loop",
              "done" >>
      [] s = "langgraph" ->
           << "get_connection_string", "check_connection", "configure_monitor",
              "build_model", "setup_graph", "stream", "done" >>

InProgram(s, st) == \E i \in 1..Len(Program(s)) : Program(s)[i] = st
Pos(s, st) == CHOOSE i \in 1..Len(Program(s)) : Program(s)[i] = st
After(s, st) == Program(s)[Pos(s, st) + 1]
Final == {"done", "exited", "aborted"}

\* Run statuses of the remote service.
NonTerminalStatuses == {"queued", "in_progress", "requires_action"}
TerminalStatuses == {"completed", "failed", "cancelled"}
Statuses == NonTerminalStatuses \cup TerminalStatuses

\* The loop condition of the poller.
ShouldPollNoAction(status) == status \in {"queued", "in_progress"}
ShouldPoll(status) == status \in {"queued", "in_progress", "requires_action"}

\* Values telemetry.get_connection_string() can return.
ConnectionStrings == {"None", "", "InstrumentationKey=k"}
IsAbsentNoneOnly(cs) == cs = "None"
IsAbsent(cs) == cs \in {"None", ""}

\* Remote operations.
SetupOps == {"create_agent", "create_thread", "create_message", "create_run"}
RemoteOps == SetupOps \cup
    {"get_connection_string", "list_threads", "get_run", "list_messages",
     "prepare_evaluation_data", "evaluate", "delete_agent", "llm_stream"}

\* Environment values the evaluation script reads with os.environ[...].
RequiredEnv == {"AZURE_OPENAI_MODEL_DEPLOYMENT", "AZURE_OPENAI_SERVICE",
                "AZURE_OPENAI_API_KEY", "AZURE_OPENAI_CHATGPT_DEPLOYMENT"}
ModelConfigEnv == <<"AZURE_OPENAI_SERVICE", "AZURE_OPENAI_API_KEY",
                    "AZURE_OPENAI_CHATGPT_DEPLOYMENT">>

Inc(n) == IF n < MaxCount THEN n + 1 ELSE n

\* An exception raised at module level has no handler: the process ends.
OnErrorRetry(stage) == stage
OnError(stage) == "aborted"

(***************************************************************************)
(* Messages of a thread and the transcript printer.                        *)
(***************************************************************************)
Roles == {"user", "assistant"}
TextLists == {<< >>, <<"a">>, <<"a", "b">>, <<"b", "a">>}
Messages == [role : Roles, text_messages : TextLists]
SeqsUpTo(S, n) == UNION {[1..k -> S] : k \in 0..n}

HasText(msg) == Len(msg.text_messages) > 0
FirstText(msg) == msg.text_messages[1]
LastText(msg) == msg.text_messages[Len(msg.text_messages)]

(***************************************************************************)
(* Evaluation records and the line-delimited file.  A record is modelled   *)
(* by its text payload, a sequence of characters; "LF" is the newline,     *)
(* "BS" the backslash, "QUOTE" the double quote, "U+00E9" a non-ASCII      *)
(* letter.                                                                 *)
(***************************************************************************)
Records == {<< >>, <<"x">>, <<"LF">>, <<"U+00E9", "LF", "x">>, <<"BS", "n">>}

EscapeCharRaw(c) == <<c>>
EscapeChar(c) ==
    CASE c = "LF" -> <<"BS", "n">>
      [] c = "BS" -> <<"BS", "BS">>
      [] c = "QUOTE" -> <<"BS", "QUOTE">>
      [] OTHER -> <<c>>

RECURSIVE Escape(_)
Escape(s) == IF s = << >> THEN << >> ELSE EscapeChar(Head(s)) \o Escape(Tail(s))

\* json.dumps(obj, ensure_ascii=False)
json_dumps(obj) == <<"QUOTE">> \o Escape(obj) \o <<"QUOTE">>

\* open(filename, "w") truncates the file.
OpenForWrite(old) == << >>

\* What the file may hold before the script opens it.
PriorFiles == {<< >>, <<"x", "LF">>}

(***************************************************************************)
(* State.                                                                  *)
(***************************************************************************)
VARIABLES
    script,              \* which script this process runs
    env,                 \* the environment values that are set
    srvConnection,       \* the project's telemetry connection string
    srvMessages,         \* what messages.list returns for the thread
    srvRecords,          \* what the converter returns for the thread
    pc,                  \* the statement to execute next
    failedAt,            \* the statement at which an exception was raised
    error,               \* the kind of that exception
    connection_string,
    telemetryConfigured,
    instructionPrints,   \* "Application Insights is not enabled..." lines
    issued,              \* calls issued, per remote operation
    remoteStatus,        \* the Run's status at the service
    runStatus,           \* run.status, the last status observed locally
    sleeps,              \* time.sleep(1) calls
    runErrorPrints,      \* "Run error: ..." lines
    messages, listOrder, msgIdx,
    printed,             \* the "role: text" lines, in print order
    evaluation_data, file, recIdx,
    model_config, evaluators, response, outputPrinted,
    graphReady, streamResult

inputs == <<script, env, srvConnection, srvMessages, srvRecords>>
ctl == <<pc, failedAt, error>>
telem == <<connection_string, telemetryConfigured, instructionPrints>>
runv == <<runStatus, sleeps, runErrorPrints>>
transcript == <<messages, listOrder, msgIdx, printed>>
filev == <<evaluation_data, file, recIdx>>
evalv == <<model_config, evaluators, response, outputPrinted>>
lg == <<graphReady, streamResult>>
vars == <<inputs, ctl, telem, issued, remoteStatus, runv, transcript, filev,
          evalv, lg>>

InitWith(Envs, Threads, Datas) ==
    /\ script \in Scripts
    /\ env \in (IF script = "evaluate" THEN Envs ELSE {RequiredEnv})
    /\ srvConnection \in
         (IF script \in TelemetryScripts THEN ConnectionStrings ELSE {"None"})
    /\ srvMessages \in (IF script \in AgentScripts THEN Threads ELSE {<< >>})
    /\ srvRecords \in (IF script = "evaluate" THEN Datas ELSE {<< >>})
    /\ pc = Program(script)[1]
    /\ failedAt = "none"
    /\ error = "none"
    /\ connection_string = "unset"
    /\ telemetryConfigured = FALSE
    /\ instructionPrints = 0
    /\ issued = [op \in RemoteOps |-> 0]
    /\ remoteStatus = "none"
    /\ runStatus = "none"
    /\ sleeps = 0
    /\ runErrorPrints = 0
    /\ messages = << >>
    /\ listOrder = "none"
    /\ msgIdx = 0
    /\ printed = << >>
    /\ evaluation_data = << >>
    /\ file = << >>
    /\ recIdx = 0
    /\ model_config = "unset"
    /\ evaluators = {}
    /\ response = "none"
    /\ outputPrinted = FALSE
    /\ graphReady = FALSE
    /\ streamResult = "none"

UserMsg == [role |-> "user", text_messages |-> <<"a">>]
AgentMsg == [role |-> "assistant", text_messages |-> <<"a", "b">>]
EmptyMsg == [role |-> "assistant", text_messages |-> << >>]
SampleThreads == {<<UserMsg>>, <<UserMsg, EmptyMsg, AgentMsg>>}
SampleData == {<< >>, <<<<"x">>, <<"U+00E9", "LF", "x">>>>}

Init == InitWith(SUBSET RequiredEnv, SampleThreads, SampleData)
InitTranscript == InitWith({RequiredEnv}, SeqsUpTo(Messages, MaxMsgs), {<< >>})
InitFile == InitWith({RequiredEnv}, {<<UserMsg>>}, SeqsUpTo(Records, MaxRecords))

(***************************************************************************)
(* Steps shared by the scripts.                                            *)
(***************************************************************************)
Issue(op) == issued' = [issued EXCEPT ![op] = Inc(@)]

Goto(next) == pc' = next /\ UNCHANGED <<failedAt, error>>

Raise(kind) ==
    /\ pc' = OnError(pc)
    /\ failedAt' = pc
    /\ error' = kind

\* A remote call that returns nothing the script uses.
RemoteStep(stage, op) ==
    /\ pc = stage
    /\ Issue(op)
    /\ \E ok \in BOOLEAN :
         IF ok THEN Goto(After(script, stage)) ELSE Raise("RemoteServiceError")

GetConnectionString ==
    /\ pc = "get_connection_string"
    /\ Issue("get_connection_string")
    /\ \E ok \in BOOLEAN :
         IF ok
         THEN /\ connection_string' = srvConnection
              /\ Goto(After(script, pc))
         ELSE /\ Raise("RemoteServiceError")
              /\ UNCHANGED connection_string
    /\ UNCHANGED <<inputs, telemetryConfigured, instructionPrints, remoteStatus,
                   runv, transcript, filev, evalv, lg>>

CheckConnectionString ==
    /\ pc = "check_connection"
    /\ IF IsAbsent(connection_string)
       THEN /\ instructionPrints' = instructionPrints + 1
            /\ Goto("exited")
       ELSE /\ Goto(After(script, pc))
            /\ UNCHANGED instructionPrints
    /\ UNCHANGED <<inputs, connection_string, telemetryConfigured, issued,
                   remoteStatus, runv, transcript, filev, evalv, lg>>

ConfigureAzureMonitor ==
    /\ pc = "configure_monitor"
    /\ telemetryConfigured' = TRUE
    /\ Goto(After(script, pc))
    /\ UNCHANGED <<inputs, connection_string, instructionPrints, issued,
                   remoteStatus, runv, transcript, filev, evalv, lg>>

CreateAgent ==
    /\ pc = "create_agent"
    /\ IF script = "evaluate" /\ "AZURE_OPENAI_MODEL_DEPLOYMENT" \notin env
       THEN /\ Raise("KeyError")
            /\ UNCHANGED issued
       ELSE /\ Issue("create_agent")
            /\ \E ok \in BOOLEAN :
                 IF ok THEN Goto(After(script, pc))
                       ELSE Raise("RemoteServiceError")
    /\ UNCHANGED <<inputs, telem, remoteStatus, runv, transcript, filev, evalv,
                   lg>>

CreateThread ==
    /\ RemoteStep("create_thread", "create_thread")
    /\ UNCHANGED <<inputs, telem, remoteStatus, runv, transcript, filev, evalv,
                   lg>>

ListThreads ==
    /\ RemoteStep("list_threads", "list_threads")
    /\ UNCHANGED <<inputs, telem, remoteStatus, runv, transcript, filev, evalv,
                   lg>>

CreateMessage ==
    /\ RemoteStep("create_message", "create_message")
    /\ UNCHANGED <<inputs, telem, remoteStatus, runv, transcript, filev, evalv,
                   lg>>

CreateRun ==
    /\ pc = "create_run"
    /\ Issue("create_run")
    /\ \E ok \in BOOLEAN :
         IF ok
         THEN /\ \E st \in Statuses : remoteStatus' = st /\ runStatus' = st
              /\ Goto(After(script, pc))
         ELSE /\ Raise("RemoteServiceError")
              /\ UNCHANGED <<remoteStatus, runStatus>>
    /\ UNCHANGED <<inputs, telem, sleeps, runErrorPrints, transcript, filev,
                   evalv, lg>>

\* The service moves the Run; a terminal status never changes.
RemoteProgress ==
    /\ remoteStatus \in NonTerminalStatuses
    /\ pc \notin Final
    /\ \E st \in Statuses \ {remoteStatus} : remoteStatus' = st
    /\ UNCHANGED <<inputs, ctl, telem, issued, runv, transcript, filev, evalv,
                   lg>>

PollCheck ==
    /\ pc = "poll_check"
    /\ IF ShouldPoll(runStatus) THEN Goto("poll_sleep") ELSE Goto("failed_check")
    /\ UNCHANGED <<inputs, telem, issued, remoteStatus, runv, transcript,
                   filev, evalv, lg>>

PollSleep ==
    /\ pc = "poll_sleep"
    /\ sleeps' = Inc(sleeps)
    /\ Goto("poll_get")
    /\ UNCHANGED <<inputs, telem, issued, remoteStatus, runStatus,
                   runErrorPrints, transcript, filev, evalv, lg>>

PollGet ==
    /\ pc = "poll_get"
    /\ Issue("get_run")
    /\ \E ok \in BOOLEAN :
         IF ok
         THEN /\ runStatus' = remoteStatus
              /\ Goto("poll_check")
         ELSE /\ Raise("RemoteServiceError")
              /\ UNCHANGED runStatus
    /\ UNCHANGED <<inputs, telem, remoteStatus, sleeps, runErrorPrints,
                   transcript, filev, evalv, lg>>

FailedCheck ==
    /\ pc = "failed_check"
    /\ runErrorPrints' =
         IF runStatus = "failed" THEN runErrorPrints + 1 ELSE runErrorPrints
    /\ Goto(After(script, pc))
    /\ UNCHANGED <<inputs, telem, issued, remoteStatus, runStatus, sleeps,
                   transcript, filev, evalv, lg>>

DeleteAgent ==
    /\ RemoteStep("delete_agent", "delete_agent")
    /\ UNCHANGED <<inputs, telem, remoteStatus, runv, transcript, filev, evalv,
                   lg>>

ListMessages ==
    /\ pc = "list_messages"
    /\ Issue("list_messages")
    /\ listOrder' = "ascending"
    /\ \E ok \in BOOLEAN :
         IF ok
         THEN /\ messages' = srvMessages
              /\ msgIdx' = 1
              /\ Goto("print_loop")
         ELSE /\ Raise("RemoteServiceError")
              /\ UNCHANGED <<messages, msgIdx>>
    /\ UNCHANGED <<inputs, telem, remoteStatus, runv, printed, filev, evalv, lg>>

\* One iteration of "for msg in messages", or the exit of the loop.
PrintMessage ==
    /\ pc = "print_loop"
    /\ IF msgIdx <= Len(messages)
       THEN /\ printed' =
                 IF HasText(messages[msgIdx])
                 THEN Append(printed, <<messages[msgIdx].role,
                                        LastText(messages[msgIdx])>>)
                 ELSE printed
            /\ msgIdx' = msgIdx + 1
            /\ Goto("print_loop")
       ELSE /\ Goto(After(script, pc))
            /\ UNCHANGED <<printed, msgIdx>>
    /\ UNCHANGED <<inputs, telem, issued, remoteStatus, runv, messages,
                   listOrder, filev, evalv, lg>>

(***************************************************************************)
(* Steps of the evaluation script only.                                    *)
(***************************************************************************)
\* converter.prepare_evaluation_data(thread_ids=..., filename=...)
PrepareEvaluationData ==
    /\ pc = "prepare_data"
    /\ Issue("prepare_evaluation_data")
    /\ \E ok \in BOOLEAN :
         IF ok
         THEN /\ evaluation_data' = srvRecords
              /\ \E f \in PriorFiles : file' = f
              /\ Goto(After(script, pc))
         ELSE /\ Raise("RemoteServiceError")
              /\ UNCHANGED <<evaluation_data, file>>
    /\ UNCHANGED <<inputs, telem, remoteStatus, runv, transcript, recIdx, evalv,
                   lg>>

OpenFile ==
    /\ pc = "open_file"
    /\ file' = OpenForWrite(file)
    /\ recIdx' = 1
    /\ Goto(After(script, pc))
    /\ UNCHANGED <<inputs, telem, issued, remoteStatus, runv, transcript,
                   evaluation_data, evalv, lg>>

\* One iteration of "for obj in evaluation_data", or the exit of the loop.
WriteRecord ==
    /\ pc = "write_loop"
    /\ IF recIdx <= Len(evaluation_data)
       THEN /\ file' = file \o json_dumps(evaluation_data[recIdx]) \o <<"LF">>
            /\ recIdx' = recIdx + 1
            /\ Goto("write_loop")
       ELSE /\ Goto(After(script, pc))
            /\ UNCHANGED <<file, recIdx>>
    /\ UNCHANGED <<inputs, telem, issued, remoteStatus, runv, transcript,
                   evaluation_data, evalv, lg>>

\* AzureOpenAIModelConfiguration(...): three os.environ[...] lookups.
ModelConfig ==
    /\ pc = "model_config"
    /\ IF \E i \in 1..Len(ModelConfigEnv) : ModelConfigEnv[i] \notin env
       THEN /\ Raise("KeyError")
            /\ UNCHANGED model_config
       ELSE /\ model_config' = "set"
            /\ Goto(After(script, pc))
    /\ UNCHANGED <<inputs, telem, issued, remoteStatus, runv, transcript, filev,
                   evaluators, response, outputPrinted, lg>>

InitEvaluators ==
    /\ pc = "init_evaluators"
    /\ evaluators' = {"tool_call_accuracy", "intent_resolution", "task_adherence"}
    /\ Goto(After(script, pc))
    /\ UNCHANGED <<inputs, telem, issued, remoteStatus, runv, transcript, filev,
                   model_config, response, outputPrinted, lg>>

Evaluate ==
    /\ pc = "evaluate"
    /\ Issue("evaluate")
    /\ \E ok \in BOOLEAN :
         IF ok
         THEN /\ \E r \in {"metrics", "metrics+studio_url"} : response' = r
              /\ Goto(After(script, pc))
         ELSE /\ Raise("RemoteServiceError")
              /\ UNCHANGED response
    /\ UNCHANGED <<inputs, telem, remoteStatus, runv, transcript, filev,
                   model_config, evaluators, outputPrinted, lg>>

Output ==
    /\ pc = "output"
    /\ outputPrinted' = TRUE
    /\ Goto(After(script, pc))
    /\ UNCHANGED <<inputs, telem, issued, remoteStatus, runv, transcript, filev,
                   model_config, evaluators, response, lg>>

(***************************************************************************)
(* Steps of the LangGraph script only.                                     *)
(***************************************************************************)
BuildModel ==
    /\ pc = "build_model"
    /\ Goto(After(script, pc))
    /\ UNCHANGED <<inputs, telem, issued, remoteStatus, runv, transcript, filev,
                   evalv, lg>>

SetupGraph ==
    /\ pc = "setup_graph"
    /\ graphReady' = TRUE
    /\ Goto(After(script, pc))
    /\ UNCHANGED <<inputs, telem, issued, remoteStatus, runv, transcript, filev,
                   evalv, streamResult>>

\* test_agent: an exception of graph.stream is caught and printed.
StreamEvents ==
    /\ pc = "stream"
    /\ Issue("llm_stream")
    /\ \E ok \in BOOLEAN :
         streamResult' = IF ok THEN "answered" ELSE "error_printed"
    /\ Goto(After(script, pc))
    /\ UNCHANGED <<inputs, telem, remoteStatus, runv, transcript, filev, evalv,
                   graphReady>>

Next ==
    \/ GetConnectionString
    \/ CheckConnectionString
    \/ ConfigureAzureMonitor
    \/ CreateAgent
    \/ CreateThread
    \/ ListThreads
    \/ CreateMessage
    \/ CreateRun
    \/ RemoteProgress
    \/ PollCheck
    \/ PollSleep
    \/ PollGet
    \/ FailedCheck
    \/ DeleteAgent
    \/ ListMessages
    \/ PrintMessage
    \/ PrepareEvaluationData
    \/ OpenFile
    \/ WriteRecord
    \/ ModelConfig
    \/ InitEvaluators
    \/ Evaluate
    \/ Output
    \/ BuildModel
    \/ SetupGraph
    \/ StreamEvents

Spec == Init /\ [][Next]_vars
SpecTranscript == InitTranscript /\ [][Next]_vars
SpecFile == InitFile /\ [][Next]_vars

(***************************************************************************)
(* Vocabulary of the properties.                                           *)
(***************************************************************************)
Reached(stage) ==
    /\ InProgram(script, pc)
    /\ InProgram(script, stage)
    /\ Pos(script, pc) >= Pos(script, stage)

NoRemoteCall == \A op \in RemoteOps : issued[op] = 0

\* The lines a reader of the transcript expects: one per message that has a
\* text segment, its role and its last segment, in the order of the list.
WithText(ms) == SelectSeq(ms, LAMBDA m : m.text_messages # << >>)
ExpectedTranscript(ms) ==
    [i \in 1..Len(WithText(ms)) |->
        <<WithText(ms)[i].role,
          WithText(ms)[i].text_messages[Len(WithText(ms)[i].text_messages)]>>]

\* The lines of a text file: the characters before each newline.
FirstLF(f) ==
    IF \E k \in 1..Len(f) : f[k] = "LF"
    THEN CHOOSE k \in 1..Len(f) : f[k] = "LF" /\ \A j \in 1..(k - 1) : f[j] # "LF"
    ELSE 0
RECURSIVE SplitLines(_)
SplitLines(f) ==
    IF f = << >> THEN << >>
    ELSE IF FirstLF(f) = 0 THEN <<f>>
    ELSE <<SubSeq(f, 1, FirstLF(f) - 1)>>
            \o SplitLines(SubSeq(f, FirstLF(f) + 1, Len(f)))

\* What a JSON reader makes of one line.
RECURSIVE Unescape(_)
Unescape(s) ==
    IF s = << >> THEN << >>
    ELSE IF Head(s) = "BS" /\ Len(s) >= 2
         THEN <<(CASE s[2] = "n" -> "LF" [] OTHER -> s[2])>>
                 \o Unescape(SubSeq(s, 3, Len(s)))
         ELSE <<Head(s)>> \o Unescape(Tail(s))
json_loads(line) ==
    IF Len(line) >= 2 /\ line[1] = "QUOTE" /\ line[Len(line)] = "QUOTE"
    THEN Unescape(SubSeq(line, 2, Len(line) - 1))
    ELSE <<"invalid">>

(***************************************************************************)
(* C1: in the scripts that create an Agent, whenever the process has ended *)
(* and the Run was observed in a terminal status, delete_agent has been    *)
(* issued exactly once, whether or not the later stages succeeded.         *)
(***************************************************************************)
C1_DeletedExactlyOnce ==
    (script \in AgentScripts /\ pc \in Final /\ runStatus \in TerminalStatuses)
        => issued["delete_agent"] = 1

\* The poller's state: who may be waiting, and how waits and get-run calls
\* pair up (the counters are exact below MaxCount).
PollsWhileNotTerminal ==
    script \in AgentScripts =>
        /\ pc \in {"poll_sleep", "poll_get"} => runStatus \in NonTerminalStatuses
        /\ issued["get_run"] <= sleeps
        /\ sleeps < MaxCount =>
              issued["get_run"] = IF pc = "poll_get" THEN sleeps - 1 ELSE sleeps
        /\ Reached("failed_check") => runStatus \in TerminalStatuses
\* What a step may do once a terminal status was observed.
NoPollAfterTerminal ==
    runStatus \in TerminalStatuses =>
        /\ issued'["get_run"] = issued["get_run"]
        /\ sleeps' = sleeps
        /\ runStatus' = runStatus
        /\ pc' \notin {"poll_sleep", "poll_get"}
C3_AbsentTelemetryExits ==
    (script \in TelemetryScripts /\ connection_string \in {"None", ""}) =>
        /\ pc \in {"check_connection", "exited"}
        /\ pc = "exited" => instructionPrints = 1
        /\ pc = "check_connection" => instructionPrints = 0
        /\ ~telemetryConfigured
        /\ \A op \in SetupOps : issued[op] = 0
        /\ issued["llm_stream"] = 0

C3_Witness ==
    /\ script = "agent_service"
    /\ connection_string = ""
    /\ pc = "exited"
    /\ instructionPrints = 1

(***************************************************************************)
(* C4: in the evaluation script, when a required environment value is      *)
(* absent no remote call is ever made and no evaluator is constructed.     *)
(***************************************************************************)
C4_ConfigurationCheckedFirst ==
    (script = "evaluate" /\ env # RequiredEnv) =>
        /\ NoRemoteCall
        /\ evaluators = {}

(***************************************************************************)
(* C5: a failed Run is reported once and is not fatal; the later stages    *)
(* run and agent deletion follows them; no "Run error" line is printed for *)
(* any other status.                                                       *)
(***************************************************************************)
C5_FailedRunNotFatal ==
    script \in AgentScripts =>
        /\ runStatus # "failed" => runErrorPrints = 0
        /\ (runStatus = "failed" /\ Reached("failed_check")
              /\ pc # "failed_check") => runErrorPrints = 1
        /\ failedAt # "failed_check"
        /\ (runStatus = "failed" /\ error = "none"
              /\ issued["delete_agent"] > 0) =>
              /\ issued["list_messages"] > 0
              /\ script = "evaluate" => (recIdx > 0 /\ issued["evaluate"] > 0)

C7_TranscriptPrinter ==
    script \in AgentScripts =>
        /\ issued["list_messages"] > 0 => listOrder = "ascending"
        /\ printed = ExpectedTranscript(SubSeq(messages, 1, msgIdx - 1))
        /\ (Reached("print_loop") /\ pc # "print_loop")
              => printed = ExpectedTranscript(srvMessages)
        /\ failedAt # "print_loop"

C7_Witness ==
    /\ script = "agent_service"
    /\ pc = "done"
    /\ Len(messages) = 2
    /\ messages[1].text_messages = << >>
    /\ messages[2] = [role |-> "assistant", text_messages |-> <<"a", "b">>]
    /\ printed = << <<"assistant", "b">> >>

(***************************************************************************)
(* C8: once delete_agent has been issued, no further remote operation is   *)
(* issued.                                                                 *)
(***************************************************************************)
C8_NothingAfterDelete ==
    [][issued["delete_agent"] > 0 => issued' = issued]_vars

(***************************************************************************)
(* C9: while the poller waits and polls the Agent is not deleted, it is    *)
(* never deleted before a terminal status was observed, and once a         *)
(* terminal status was observed the script, with the remote service        *)
(* answering every call, reaches agent deletion before the process ends.   *)
(***************************************************************************)
C9_TerminationOnTerminalStatus ==
    script \in AgentScripts =>
        /\ pc \in {"poll_sleep", "poll_get"} => issued["delete_agent"] = 0
        /\ issued["delete_agent"] > 0 => runStatus \in TerminalStatuses
        /\ (pc \in Final /\ runStatus \in TerminalStatuses
              /\ error # "RemoteServiceError") => issued["delete_agent"] > 0

(***************************************************************************)
(* C10: each of create-agent, create-thread, create-message and create-run *)
(* is issued at most once, and when one of them fails the process is       *)
(* aborted with nothing later having run: no later creation, no poll, no   *)
(* listing, no conversion, no file write, no evaluation, no deletion.      *)
(***************************************************************************)
C10_SetupFailureFatal ==
    script \in AgentScripts =>
        /\ \A op \in SetupOps : issued[op] <= 1
        /\ failedAt \in SetupOps =>
              /\ pc = "aborted"
              /\ \A op \in SetupOps :
                    Pos(script, op) > Pos(script, failedAt) => issued[op] = 0
              /\ issued["get_run"] = 0 /\ sleeps = 0
              /\ issued["list_messages"] = 0 /\ printed = << >>
              /\ issued["prepare_evaluation_data"] = 0 /\ recIdx = 0
              /\ issued["evaluate"] = 0
              /\ issued["delete_agent"] = 0

C10_Witness ==
    /\ script = "evaluate"
    /\ failedAt = "create_message"
    /\ error = "RemoteServiceError"
    /\ pc = "aborted"
    /\ issued["create_message"] = 1

====
